---- MODULE Spec2Model ----
(***************************************************************************)
(* Model of app.py: a Dash dashboard over one revenue table.               *)
(*                                                                         *)
(* The process state is the module-level DataFrame df_revenues_spreads.    *)
(* The page state is the value of each component property the callbacks    *)
(* read or write (year_slider.value, battery_capacity.value,               *)
(* daily_cycle_limit.value, play.n_clicks, animate.disabled) and the two   *)
(* figures.  A browser event changes a property and queues the callbacks   *)
(* that list the property as an Input; each callback then runs as one      *)
(* step.  Revenues are fixed-point numbers, in thousandths of a euro.      *)
(***************************************************************************)
EXTENDS Integers, Sequences, FiniteSets, TLC

\* ------------------------------------------------------------ bounds

\* Timer ticks counted after one Play click before the count is given up.
MaxTicks == 8

\* Play/Pause clicks per page load.
MaxClicks == 2

\* ------------------------------------------------- values and columns

\* Python's None, for n_clicks before the first click.
None == -1

\* A missing cell (NaN) is <<>>, a present cell <<v>>.
Null == <<>>

\* Bidding zones of the modelled CSV files, in ascending name order.
ZoneOrder == <<"DE", "FR", "XK">>

\* Years, capacities and cycle limits the modelled CSV files hold rows for.
DataYears == <<2016, 2023>>

DataCapacities == <<1, 2>>

DataCycleLimits == <<1, 2>>

\* The modelled CSV files.  base is the revenue of the first row, in
\* thousandths: 50000.004 (rounds down), 123.455 (a tie), 123.456 (rounds
\* up).  sparse: FR has no 2023 rows.  dup: the first row is repeated (a
\* duplicate key).
Datasets ==
    { [base |-> 50000004, sparse |-> FALSE, dup |-> FALSE],
      [base |-> 123455,   sparse |-> TRUE,  dup |-> FALSE],
      [base |-> 123456,   sparse |-> FALSE, dup |-> TRUE] }

\* Sets of zones the geometry provider may resolve.
Geometries == {{"DE", "FR"}, {"DE", "FR", "XK"}}

NRows == Len(ZoneOrder) * Len(DataYears) * Len(DataCapacities) * Len(DataCycleLimits)

\* Row i of the full grid of keys, zone-major.
GridRow(i, base) ==
    LET j  == i - 1
        nl == Len(DataCycleLimits)
        nc == Len(DataCapacities)
        ny == Len(DataYears)
        zi == j \div (ny * nc * nl)
        yi == (j \div (nc * nl)) % ny
        ci == (j \div nl) % nc
        li == j % nl
    IN  [zoneName             |-> ZoneOrder[zi + 1],
         Year                 |-> DataYears[yi + 1],
         battery_capacity     |-> DataCapacities[ci + 1],
         daily_cycle_limit    |-> DataCycleLimits[li + 1],
         Revenue              |-> base + 1000000 * zi + 10000 * yi + 1000 * ci + 110 * li,
         average_daily_spread |-> 10 + zi + yi]

\* pd.read_csv('data/revenues_spreads.csv') for the CSV file d.
read_csv(d) ==
    LET grid == [i \in 1..NRows |-> GridRow(i, d.base)]
        Kept(r) == ~(d.sparse /\ r.zoneName = "FR" /\ r.Year = 2023)
        rows == SelectSeq(grid, Kept)
    IN  IF d.dup THEN <<rows[1]>> \o rows ELSE rows

\* Series.round(2): to the nearest hundredth, a tie to the even hundredth.
Round2(v) ==
    LET q == v \div 10
        r == v % 10
    IN  IF r < 5 THEN q * 10
        ELSE IF r > 5 THEN (q + 1) * 10
        ELSE IF q % 2 = 0 THEN q * 10 ELSE (q + 1) * 10

\* Series.unique(): the distinct values in order of first appearance.
RECURSIVE unique(_)
unique(s) ==
    IF s = <<>> THEN <<>>
    ELSE LET init == unique(SubSeq(s, 1, Len(s) - 1))
             x    == s[Len(s)]
         IN  IF \E i \in DOMAIN init : init[i] = x THEN init ELSE Append(init, x)

\* utils.load_zones(zones, ...): one geometry row per zone it resolves.
load_zones(zones, geometry) ==
    LET Known(z) == z \in geometry
    IN  SelectSeq(zones, Known)

\* pd.merge(left, right, how="left", on="zoneName"): every left row once per
\* matching right row, and once with a missing revenue when none matches.
RECURSIVE merge_left(_, _)
merge_inner(left, right) ==
    IF left = <<>> THEN <<>>
    ELSE LET z == Head(left)
             Same(r) == r.zoneName = z
             m == SelectSeq(right, Same)
         IN  [i \in 1..Len(m) |-> [zoneName |-> z, Revenue |-> <<m[i].Revenue>>]]
               \o merge_left(Tail(left), right)

merge_left(left, right) ==
    IF left = <<>> THEN <<>>
    ELSE LET z == Head(left)
             Same(r) == r.zoneName = z
             m == SelectSeq(right, Same)
             joined ==
                 IF m = <<>> THEN << [zoneName |-> z, Revenue |-> Null] >>
                 ELSE [i \in 1..Len(m) |-> [zoneName |-> z, Revenue |-> <<m[i].Revenue>>]]
         IN  joined \o merge_left(Tail(left), right)

\* ------------------------------------------------------------ callbacks

\* create_choropleth: the figure's (location, colour) rows and the table as the
\* call leaves it.  The slice is cut before the Revenue column is rounded.
create_choropleth(df, geometry, year, capacity, cycle_limit) ==
    LET zones  == unique([i \in DOMAIN df |-> df[i].zoneName])
        geo_df == load_zones(zones, geometry)
        Match(r) == /\ r.Year = year
                    /\ r.battery_capacity = capacity
                    /\ r.daily_cycle_limit = cycle_limit
        df_revenues_spreads_slice == SelectSeq(df, Match)
        rounded == [i \in DOMAIN df |-> [df[i] EXCEPT !.Revenue = Round2(@)]]
    IN  [fig |-> merge_left(geo_df, df_revenues_spreads_slice), df |-> rounded]

\* list(range(2016, 2023))
RangeStart == 2016

RangeStop == 2023

years == [i \in 1..(RangeStop - RangeStart) |-> RangeStart + i - 1]

\* The year update_choropleth_interval returns, <<year>>, or <<>> when
\* years.index(year) raises ValueError.
next_year_no_wrap(interval_disabled, year) ==
    IF ~interval_disabled
    THEN IF \E i \in DOMAIN years : years[i] = year /\ i < Len(years)
         THEN <<year + 1>>
         ELSE <<>>
    ELSE <<year>>

next_year_always(interval_disabled, year) ==
    IF \E i \in DOMAIN years : years[i] = year
    THEN LET index == (CHOOSE i \in DOMAIN years : years[i] = year) - 1
         IN  <<years[((index + 1) % Len(years)) + 1]>>
    ELSE <<>>

next_year(interval_disabled, year) ==
    IF ~interval_disabled
    THEN IF \E i \in DOMAIN years : years[i] = year
         THEN LET index == (CHOOSE i \in DOMAIN years : years[i] = year) - 1
              IN  <<years[((index + 1) % Len(years)) + 1]>>
         ELSE <<>>
    ELSE <<year>>

\* bubble_chart: the slice over all years, sorted by zone name descending;
\* each point carries its zone, year, colour (revenue) and size (spread).
RECURSIVE sort_zone_descending(_, _)
sort_zone_descending(df, k) ==
    IF k = 0 THEN <<>>
    ELSE LET Here(r) == r.zoneName = ZoneOrder[k]
         IN  SelectSeq(df, Here) \o sort_zone_descending(df, k - 1)

bubble_chart(df, capacity, cycle_limit) ==
    LET Match(r) == /\ r.battery_capacity = capacity
                    /\ r.daily_cycle_limit = cycle_limit
        sorted == sort_zone_descending(SelectSeq(df, Match), Len(ZoneOrder))
    IN  [i \in DOMAIN sorted |->
            [Zone  |-> sorted[i].zoneName,
             Year  |-> sorted[i].Year,
             color |-> sorted[i].Revenue,
             size  |-> sorted[i].average_daily_spread]]

\* toggle: `if n: return not playing`, else playing.
toggle_always(n, playing) == ~playing

toggle(n, playing) ==
    IF n # None /\ n # 0 THEN ~playing ELSE playing

\* ---------------------------------------------------------------- state

VARIABLES
    dataset,              \* the CSV file the process was started on
    geometry,             \* the zones the geometry provider resolves
    df_revenues_spreads,  \* the module-level table
    year_slider,          \* year_slider.value
    battery_capacity,     \* battery_capacity.value
    daily_cycle_limit,    \* daily_cycle_limit.value
    n_clicks,             \* play.n_clicks
    disabled,             \* animate.disabled
    choropleth,           \* choropleth.figure, with the arguments it was built for
    bubble,               \* bubble_chart.figure, with the arguments it was built for
    pending,              \* callbacks queued by the last event
    trigger,              \* the property whose change queued them
    last,                 \* the latest run of update_choropleth_interval
    run                   \* ticks since a Play click from PAUSED, while nothing else happened

vars == <<dataset, geometry, df_revenues_spreads, year_slider, battery_capacity,
          daily_cycle_limit, n_clicks, disabled, choropleth, bubble, pending,
          trigger, last, run>>

\* dcc.Slider(2016, 2023, 1, value=2016, ...)
SliderMin == 2016

SliderMax == 2023

SliderInitial == 2016

\* dcc.RadioItems options and initial values
CapacityOptions == {1, 2}

CycleLimitOptions == {1, 2, 3}

RadioInitial == 1

NoFigure == [drawn |-> FALSE, args |-> <<>>, data |-> <<>>]

NoRun == [on |-> FALSE, y0 |-> 0, n |-> 0]

NoCall == [trigger |-> "none", interval_disabled |-> TRUE, year |-> 0, ret |-> <<0>>]

AllCallbacks == {"update_choropleth_interval", "bubble_chart", "toggle"}

\* The page as app.layout builds it; Dash then calls every callback once.
FreshPage ==
    /\ year_slider' = SliderInitial
    /\ battery_capacity' = RadioInitial
    /\ daily_cycle_limit' = RadioInitial
    /\ n_clicks' = None
    /\ disabled' = TRUE
    /\ choropleth' = NoFigure
    /\ bubble' = NoFigure
    /\ pending' = AllCallbacks
    /\ trigger' = "initial"
    /\ last' = NoCall
    /\ run' = NoRun

Init ==
    /\ dataset \in Datasets
    /\ geometry \in Geometries
    /\ df_revenues_spreads = read_csv(dataset)
    /\ year_slider = SliderInitial
    /\ battery_capacity = RadioInitial
    /\ daily_cycle_limit = RadioInitial
    /\ n_clicks = None
    /\ disabled = TRUE
    /\ choropleth = NoFigure
    /\ bubble = NoFigure
    /\ pending = AllCallbacks
    /\ trigger = "initial"
    /\ last = NoCall
    /\ run = NoRun

\* ---------------------------------------------------------------- events

\* The browser loads the page again; the process and its table live on.
PageLoad ==
    /\ pending = {}
    /\ FreshPage
    /\ UNCHANGED <<dataset, geometry, df_revenues_spreads>>

\* The user drags the year slider to y.
MoveYearSlider(y) ==
    /\ pending = {}
    /\ y # year_slider
    /\ year_slider' = y
    /\ pending' = {"update_choropleth_interval"}
    /\ trigger' = "year_slider"
    /\ last' = NoCall
    /\ run' = NoRun
    /\ UNCHANGED <<dataset, geometry, df_revenues_spreads, battery_capacity,
                   daily_cycle_limit, n_clicks, disabled, choropleth, bubble>>

\* The user picks another battery capacity.
SelectBatteryCapacity(c) ==
    /\ pending = {}
    /\ c # battery_capacity
    /\ battery_capacity' = c
    /\ pending' = {"update_choropleth_interval", "bubble_chart"}
    /\ trigger' = "battery_capacity"
    /\ last' = NoCall
    /\ run' = NoRun
    /\ UNCHANGED <<dataset, geometry, df_revenues_spreads, year_slider,
                   daily_cycle_limit, n_clicks, disabled, choropleth, bubble>>

\* The user picks another daily cycle limit.
SelectDailyCycleLimit(l) ==
    /\ pending = {}
    /\ l # daily_cycle_limit
    /\ daily_cycle_limit' = l
    /\ pending' = {"update_choropleth_interval", "bubble_chart"}
    /\ trigger' = "daily_cycle_limit"
    /\ last' = NoCall
    /\ run' = NoRun
    /\ UNCHANGED <<dataset, geometry, df_revenues_spreads, year_slider,
                   battery_capacity, n_clicks, disabled, choropleth, bubble>>

\* The user clicks Play/Pause.
ClickPlay ==
    /\ pending = {}
    /\ (IF n_clicks = None THEN 0 ELSE n_clicks) < MaxClicks
    /\ n_clicks' = IF n_clicks = None THEN 1 ELSE n_clicks + 1
    /\ pending' = {"toggle"}
    /\ trigger' = "play"
    /\ last' = NoCall
    /\ run' = IF disabled /\ (\E i \in DOMAIN years : years[i] = year_slider)
              THEN [on |-> TRUE, y0 |-> year_slider, n |-> 0]
              ELSE NoRun
    /\ UNCHANGED <<dataset, geometry, df_revenues_spreads, year_slider,
                   battery_capacity, daily_cycle_limit, disabled, choropleth,
                   bubble>>

\* The interval component fires; it does so only while it is not disabled.
IntervalTick ==
    /\ pending = {}
    /\ ~disabled
    /\ pending' = {"update_choropleth_interval"}
    /\ trigger' = "animate"
    /\ last' = NoCall
    /\ run' = IF run.on /\ run.n < MaxTicks THEN [run EXCEPT !.n = @ + 1] ELSE NoRun
    /\ UNCHANGED <<dataset, geometry, df_revenues_spreads, year_slider,
                   battery_capacity, daily_cycle_limit, n_clicks, disabled,
                   choropleth, bubble>>

\* ------------------------------------------------------- callback steps

\* update_choropleth_interval runs; a raised ValueError leaves both outputs as
\* they were.
RunUpdateChoroplethInterval ==
    /\ "update_choropleth_interval" \in pending
    /\ pending' = pending \ {"update_choropleth_interval"}
    /\ LET ret == next_year(disabled, year_slider)
       IN  /\ last' = [trigger |-> trigger, interval_disabled |-> disabled,
                       year |-> year_slider, ret |-> ret]
           /\ IF ret = <<>>
              THEN UNCHANGED <<df_revenues_spreads, year_slider, choropleth>>
              ELSE LET made == create_choropleth(df_revenues_spreads, geometry, ret[1],
                                                 battery_capacity, daily_cycle_limit)
                   IN  /\ df_revenues_spreads' = made.df
                       /\ year_slider' = ret[1]
                       /\ choropleth' =
                              [drawn |-> TRUE,
                               args  |-> <<ret[1], battery_capacity, daily_cycle_limit>>,
                               data  |-> made.fig]
    /\ UNCHANGED <<dataset, geometry, battery_capacity, daily_cycle_limit, n_clicks,
                   disabled, bubble, trigger, run>>

\* bubble_chart runs.
RunBubbleChart ==
    /\ "bubble_chart" \in pending
    /\ pending' = pending \ {"bubble_chart"}
    /\ bubble' = [drawn |-> TRUE,
                  args  |-> <<battery_capacity, daily_cycle_limit>>,
                  data  |-> bubble_chart(df_revenues_spreads, battery_capacity,
                                         daily_cycle_limit)]
    /\ UNCHANGED <<dataset, geometry, df_revenues_spreads, year_slider,
                   battery_capacity, daily_cycle_limit, n_clicks, disabled,
                   choropleth, trigger, last, run>>

\* toggle runs.
RunToggle ==
    /\ "toggle" \in pending
    /\ pending' = pending \ {"toggle"}
    /\ disabled' = toggle(n_clicks, disabled)
    /\ UNCHANGED <<dataset, geometry, df_revenues_spreads, year_slider,
                   battery_capacity, daily_cycle_limit, n_clicks, choropleth,
                   bubble, trigger, last, run>>

Next ==
    \/ PageLoad
    \/ \E y \in SliderMin..SliderMax : MoveYearSlider(y)
    \/ \E c \in CapacityOptions : SelectBatteryCapacity(c)
    \/ \E l \in CycleLimitOptions : SelectDailyCycleLimit(l)
    \/ ClickPlay
    \/ IntervalTick
    \/ RunUpdateChoroplethInterval
    \/ RunBubbleChart
    \/ RunToggle

Spec == Init /\ [][Next]_vars

\* --------------------------------------------------------------- claims

InRange(y) == \E i \in DOMAIN years : years[i] = y

\* The step in which update_choropleth_interval runs.
ChoroplethCallbackRuns ==
    /\ "update_choropleth_interval" \in pending
    /\ "update_choropleth_interval" \notin pending'

SameKey(r, zone, year, capacity, cycle_limit) ==
    /\ r.zoneName = zone
    /\ r.Year = year
    /\ r.battery_capacity = capacity
    /\ r.daily_cycle_limit = cycle_limit

UniqueKeys(df) ==
    \A i, j \in DOMAIN df :
        SameKey(df[i], df[j].zoneName, df[j].Year, df[j].battery_capacity,
                df[j].daily_cycle_limit) => i = j

\* C1: whenever update_choropleth_interval runs with the animation enabled,
\* the requested year is in the animation range 2016..2022 and the call does
\* not fail.
C1_EnabledYearInRange ==
    (last.trigger # "none" /\ ~last.interval_disabled)
        => (InRange(last.year) /\ last.ret # <<>>)

\* C2: the run of update_choropleth_interval that a manual slider change to
\* year Y triggers returns Y and draws the choropleth for Y, PAUSED or PLAYING.
C2_ManualYearTakesEffect ==
    last.trigger = "year_slider"
        => /\ last.ret = <<last.year>>
           /\ year_slider = last.year
           /\ choropleth.drawn /\ choropleth.args[1] = last.year

\* C3: from PAUSED at Y0 in 2016..2022, one Play click and then N timer ticks
\* with no other input leave the slider at years[(index(Y0) + N) mod 7].
C3_TicksAdvanceCyclically ==
    (run.on /\ "update_choropleth_interval" \notin pending)
        => LET index == (CHOOSE i \in DOMAIN years : years[i] = run.y0) - 1
           IN  year_slider = years[((index + run.n) % Len(years)) + 1]

C3_Witness_WrapAt2022 ==
    /\ run.on /\ run.y0 = 2022 /\ run.n = 1
    /\ pending = {}
    /\ year_slider = 2016

\* C4: a run of update_choropleth_interval triggered by a change of battery
\* capacity or of daily cycle limit returns the year it received and leaves
\* the play flag alone, PLAYING or PAUSED.
C4_ParameterChangeKeepsYear ==
    [][ (ChoroplethCallbackRuns /\ trigger \in {"battery_capacity", "daily_cycle_limit"})
            => /\ last'.ret = <<year_slider>>
               /\ year_slider' = year_slider
               /\ disabled' = disabled ]_vars

\* C5: while PAUSED every run of update_choropleth_interval returns the
\* requested year unchanged, for years outside 2016..2022 too, and does not
\* fail; no run is triggered by a timer tick while PAUSED.
C5_PausedReturnsYearUnchanged ==
    /\ (last.trigger # "none" /\ last.interval_disabled)
          => /\ last.ret = <<last.year>>
             /\ year_slider = last.year
             /\ choropleth.drawn /\ choropleth.args[1] = last.year
    /\ last.trigger = "animate" => ~last.interval_disabled

C5_Witness_Paused2023 ==
    /\ last.trigger = "year_slider" /\ last.interval_disabled
    /\ last.year = 2023 /\ last.ret = <<2023>>
    /\ year_slider = 2023

\* C6: on every call the colour create_choropleth plots for a zone with
\* geometry and a matching record is the record's loaded revenue rounded to 2
\* decimal places.
C6_ChoroplethPlotsRoundedRevenue ==
    choropleth.drawn =>
        LET csv == read_csv(dataset)
        IN  \A i \in DOMAIN choropleth.data : \A j \in DOMAIN csv :
                SameKey(csv[j], choropleth.data[i].zoneName, choropleth.args[1],
                        choropleth.args[2], choropleth.args[3])
                    => choropleth.data[i].Revenue = <<Round2(csv[j].Revenue)>>

\* C7: with unique keys, the figure create_choropleth returns has exactly one
\* entry per zone with geometry and none for a zone without; the entry carries
\* the revenue of the table's record for (zone, year, capacity, cycle_limit),
\* or a missing value when the table has no such record.
C7_OneEntryPerGeometryZone ==
    [][ (ChoroplethCallbackRuns /\ last'.ret # <<>> /\ UniqueKeys(df_revenues_spreads))
            => LET df    == df_revenues_spreads
                   fig   == choropleth'.data
                   year  == last'.ret[1]
                   Hits(z) == {j \in DOMAIN df :
                                  SameKey(df[j], z, year, battery_capacity,
                                          daily_cycle_limit)}
               IN  /\ choropleth'.drawn
                   /\ \A k \in DOMAIN ZoneOrder :
                          Cardinality({i \in DOMAIN fig : fig[i].zoneName = ZoneOrder[k]})
                            = IF ZoneOrder[k] \in geometry THEN 1 ELSE 0
                   /\ \A i \in DOMAIN fig :
                          IF Hits(fig[i].zoneName) = {}
                          THEN fig[i].Revenue = Null
                          ELSE \E j \in Hits(fig[i].zoneName) :
                                   fig[i].Revenue = <<df[j].Revenue>> ]_vars

C7_Witness_NullAndValue ==
    /\ choropleth.drawn
    /\ UniqueKeys(read_csv(dataset))
    /\ "XK" \notin geometry
    /\ \E i, j \in DOMAIN choropleth.data :
          /\ choropleth.data[i].Revenue = Null
          /\ choropleth.data[j].Revenue # Null

\* C8: the play flag starts PAUSED, every click flips it and a run of toggle
\* without a click leaves it alone: once toggle has run, the flag is PAUSED
\* exactly when the clicks so far are none or an even number.
C8_FlagFollowsClickParity ==
    "toggle" \notin pending
        => (disabled <=> (n_clicks = None \/ n_clicks % 2 = 0))

C8_Witness_TwoClicksRestore ==
    /\ "toggle" \notin pending
    /\ n_clicks = 2
    /\ disabled

\* C9: every cell of the in-memory table equals the value loaded from the CSV.
C9_TableIsTheLoadedCsv ==
    df_revenues_spreads = read_csv(dataset)

\* C10: the figure bubble_chart returns depends on its two arguments and the
\* loaded CSV only, so it is the figure a run that calls bubble_chart first
\* gets for the same arguments.
C10_BubbleChartDependsOnArgumentsOnly ==
    bubble.drawn =>
        bubble.data = bubble_chart(read_csv(dataset), bubble.args[1], bubble.args[2])

====
